---- MODULE Spec2Model ----
(***************************************************************************)
(* Client-side batch-job tracking of the admin console.                    *)
(*                                                                         *)
(*   EnrichmentPage     src/src/app/enrichment/page.tsx                    *)
(*   BatchProgressPage  src/src/app/batch-progress/page.tsx                *)
(*                                                                         *)
(* One browser tab: at most one of the two pages is mounted at a time.     *)
(* Every mount creates a new page instance (fresh React state and refs).   *)
(* A callback of an instance that was torn down still runs: its setState   *)
(* calls are dropped by React, its writes to refs, timers and localStorage *)
(* take effect.  An async handler is one action per stretch between two    *)
(* awaits.                                                                 *)
(*                                                                         *)
(* Left out, as no tracking state depends on it: pendingCount and its      *)
(* fetch.  The sourceType radio and the CSV upload are part of             *)
(* SelectionSpec; Spec loads domains with loadPendingDomains only.  The    *)
(* tracking keeps the status of a snapshot only; what the pages render for *)
(* a whole BatchStatus is the presenter (PresenterSpec), a function of the *)
(* snapshot alone.  The batch-size select is an input of submitBatch.      *)
(* Nothing in the sources writes localStorage["activeBatchId"]; what it    *)
(* holds when the tab opens is an input of the run, and SavingSpec adds    *)
(* the write that docs/updates/update.md describes.  LiveSpec is Spec      *)
(* under fair scheduling of the poller.  TierSpec is moveColumn of         *)
(*   TestCompaniesDataGapsPage                                             *)
(*                  src/src/app/admin/test-companies-data-gaps/page.tsx    *)
(* The job API is external: a batch is pending when created and only       *)
(* moves forward.  Responses of requests that overlap                      *)
(* arrive in any order.                                                    *)
(***************************************************************************)
EXTENDS Integers, FiniteSets, Sequences, Bags, TLC

\* ------------------------------------------------------------------ bounds
MaxNavs == 1
MaxSubmits == 2
MaxInflight == 2
MaxDomains == 1
MaxTicks == 1
MaxReloads == 1
MaxOvershoot == 1
MaxFound == 1
MaxColumns == 3
MaxGroups == 2

\* ------------------------------------------------------------- vocabulary
\* JavaScript null for a batch id, a timer handle or a localStorage entry.
Null == 0

NoStatus == "null"
NoError == "null"

NonTerminal == {"pending", "processing"}
Terminal == {"completed", "completed_with_errors", "error"}
Statuses == NonTerminal \cup Terminal

\* A response body that parses as JSON but is no BatchStatus (an error body).
NoStatusField == "no_status_field"

\* Outcomes of a status request other than a 200 response with a BatchStatus.
FailedPolls == {"network_error", "http_error_json", "http_error_not_json"}

\* Outcomes of the create-request: HTTP ok or not, and what the body holds.
CreateReplies == {"ok_batch_id", "ok_no_batch_id", "ok_not_json",
                  "http_error_batch_id", "http_error_no_batch_id",
                  "http_error_not_json", "network_error"}

BatchSizeOptions == {50, 100, 200, 500}

\* An optional number of a BatchStatus that the response leaves out.
Undefined == -1000

\* localStorage holds no tier layout.
NoLayout == [saved |-> FALSE, text |-> <<>>]

\* moveColumn has not been called.
NoMove == [col |-> 0, direction |-> "none", groups |-> <<>>, layout |-> NoLayout]

\* Nothing rendered yet.
NoView == [page |-> "none", banner |-> "none", label |-> "none",
           percentText |-> Undefined, barWidth |-> Undefined,
           found |-> Undefined]

\* The BatchStatus bodies handed to the presenter: every status, with a
\* progress_percent in and around 0..100 and similar_companies_found present
\* or not.
ProgressPercents == (0 - MaxOvershoot)..(100 + MaxOvershoot)
Snapshots == [status : Statuses, progress_percent : ProgressPercents,
              similar_companies_found : {Undefined} \cup 0..MaxFound]

Domains == 1..MaxDomains
Insts == 1..MaxNavs
\* Batch 1 is the batch whose id localStorage may hold when the tab opens;
\* the backend gives the k-th create-request that it accepts the id k + 1.
BatchIds == 1..(MaxSubmits + 1)
BatchOf(k) == k + 1

VARIABLES
  apiUrl,        \* TRUE iff NEXT_PUBLIC_API_URL is set (fixed by the build)
  store,         \* localStorage["activeBatchId"], Null when absent
  jobs,          \* backend: status of every batch, "none" if it does not exist
  page,          \* the page mounted in the tab: "E", "P" or "none"
  cur,           \* instance number of the latest mount
  e,             \* React state of the mounted EnrichmentPage instance
  p,             \* React state of the mounted BatchProgressPage instance
  pollingRef,    \* pollingRef.current of every instance
  timeRef,       \* instances whose 1-second elapsed timer is pending
  timers,        \* pending 3-second interval timers, one per polling session
  statusReqs,    \* bag of status requests in flight
  createReqs,    \* create-requests in flight
  loadReqs,      \* instances with a pending-domains request in flight
  submits,       \* submitBatch invocations that passed validation
  createSent,    \* create-requests issued
  stopped,       \* sessions that have handled a terminal status
  clearCalls,    \* bag: localStorage.removeItem calls, per session
  tornActive,    \* instances torn down while their poll timer was pending
  failedPolls,   \* failed polls the mounted batch-progress page has handled
                 \* (0, 1, or 2 for two and more)
  now,           \* the clock new Date() reads, in seconds
  reloads,       \* reloads of the tab so far
  snapshot,      \* presenter: the BatchStatus handed to a render
  view,          \* presenter: what the last render produced
  parseReqs,     \* instances with a CSV parse (Papa.parse) under way
  tieredGroups,  \* test-companies page: the tier groups, columns in order
  tierLayout,    \* localStorage["test-companies-tier-layout"]
  lastMove       \* the last moveColumn call and the state it found

vars == <<apiUrl, store, jobs, page, cur, e, p, pollingRef, timeRef, timers,
          statusReqs, createReqs, loadReqs, submits, createSent, stopped,
          clearCalls, tornActive, failedPolls, now, reloads, snapshot, view,
          parseReqs, tieredGroups, tierLayout, lastMove>>

\* ------------------------------------------------------------ page state
EInit == [domains |-> {}, selectedDomains |-> {}, batchId |-> Null, batchStatus |-> NoStatus, isPolling |-> FALSE,
          isLoading |-> FALSE, error |-> NoError, sourceType |-> "pending"]

PInit == [batchId |-> Null, batchStatus |-> NoStatus, error |-> NoError,
          startTime |-> 0, elapsedTime |-> ""]

Session(pg, i, b) == [page |-> pg, inst |-> i, batch |-> b]
SessionOf(r) == Session(r.page, r.inst, r.batch)
StatusReq(pg, i, b, reply) == [page |-> pg, inst |-> i, batch |-> b, reply |-> reply]

\* The instance a callback belongs to is still the mounted one.
Live(pg, i) == page = pg /\ cur = i

InFlight == BagCardinality(statusReqs)

\* Instance i has a pending poll timer.
HasTimer(i) == \E t \in timers : t.inst = i

\* The variables of the tracking, all but the presenter's.
tracking == <<apiUrl, store, jobs, page, cur, e, p, pollingRef, timeRef, timers,
              statusReqs, createReqs, loadReqs, submits, createSent, stopped,
              clearCalls, tornActive, failedPolls, now, reloads, parseReqs>>

TrackingInit ==
  /\ apiUrl \in BOOLEAN
  /\ store \in {Null, 1}
  /\ jobs = [b \in BatchIds |-> IF b = 1 /\ store = 1 THEN "pending" ELSE "none"]
  /\ page = "none"
  /\ cur = 0
  /\ e = EInit
  /\ p = PInit
  /\ pollingRef = [i \in Insts |-> Null]
  /\ timeRef = {}
  /\ timers = {}
  /\ statusReqs = EmptyBag
  /\ createReqs = {}
  /\ loadReqs = {}
  /\ submits = 0
  /\ createSent = 0
  /\ stopped = {}
  /\ clearCalls = EmptyBag
  /\ tornActive = {}
  /\ failedPolls = 0
  /\ now = 0
  /\ reloads = 0
  /\ parseReqs = {}

\* The tracking never renders through the presenter's variables.
Init ==
  /\ TrackingInit
  /\ snapshot = NoStatus
  /\ view = NoView
  /\ tieredGroups = <<>>
  /\ tierLayout = NoLayout
  /\ lastMove = NoMove

\* ------------------------------------------------------- backend (external)
\* The statuses a batch can have reached when the job API answers, given the
\* status it last reported: pending -> processing -> one terminal status.
LaterStatuses(s) ==
  IF s = "pending" THEN Statuses
  ELSE IF s = "processing" THEN {"processing"} \cup Terminal
  ELSE {s}

\* The job API answers a status request in flight with the batch's status at
\* that moment (200).  A batch it does not know gets no such answer.
StatusOutcome(r) ==
  /\ r.reply = "sent"
  /\ jobs[r.batch] # "none"
  /\ \E s \in LaterStatuses(jobs[r.batch]) :
        /\ jobs' = [jobs EXCEPT ![r.batch] = s]
        /\ statusReqs' = (statusReqs (-) SetToBag({r}))
                           (+) SetToBag({[r EXCEPT !.reply = s]})
  /\ UNCHANGED <<apiUrl, store, page, cur, e, p, pollingRef, timeRef, timers,
                 createReqs, loadReqs, submits, createSent, stopped, clearCalls,
                 tornActive, failedPolls, now, reloads, snapshot, view,
                 parseReqs, tieredGroups, tierLayout, lastMove>>

\* Without NEXT_PUBLIC_API_URL the requests of the enrichment page go to
\* "undefined/api/..." on the console's own origin, which is no job API.
CreateRepliesOf(configured) ==
  IF configured THEN CreateReplies
  ELSE {"http_error_not_json", "ok_not_json", "network_error"}

\* The outcome of a create-request in flight is fixed.  The job API creates the
\* batch, pending, when it answers 200 with a batch_id.
CreateOutcome(r, reply) ==
  /\ r \in createReqs
  /\ r.reply = "sent"
  /\ reply \in CreateRepliesOf(apiUrl)
  /\ createReqs' = (createReqs \ {r}) \cup {[r EXCEPT !.reply = reply]}
  /\ jobs' = IF reply = "ok_batch_id" THEN [jobs EXCEPT ![BatchOf(r.k)] = "pending"]
             ELSE jobs
  /\ UNCHANGED <<apiUrl, store, page, cur, e, p, pollingRef, timeRef, timers,
                 statusReqs, loadReqs, submits, createSent, stopped, clearCalls,
                 tornActive, failedPolls, now, reloads, snapshot, view,
                 parseReqs, tieredGroups, tierLayout, lastMove>>

\* --------------------------------------------------------- shared helpers
\* What comes back for a status request in flight: the answer of the job API
\* once it has given one, a failure as long as it has not.
Arrives(r, reply) ==
  IF r.reply = "sent" THEN reply \in FailedPolls ELSE reply = r.reply

PollReplies == Statuses \cup FailedPolls

\* Mutant of IsTerminal: only "completed" stops the poller.
IsTerminal_OnlyCompleted(s) == s = "completed"

\* Mutant of IsTerminal: everything but "pending" stops the poller.
IsTerminal_NotPending(s) == s \in Statuses \ {"pending"}

IsTerminal(s) == s \in Terminal

\* Mutant of ClearPollTimer: no clearInterval.
ClearPollTimer_Forgotten(pg, i) == timers

\* clearInterval(pollingRef.current) of instance i, guarded by its null test.
ClearPollTimer(pg, i) ==
  IF pollingRef[i] # Null THEN timers \ {Session(pg, i, pollingRef[i])} ELSE timers

\* ---------------------------------------------------------- EnrichmentPage
EMount ==
  /\ page = "none"
  /\ cur < MaxNavs
  /\ page' = "E"
  /\ cur' = cur + 1
  /\ e' = [EInit EXCEPT !.error = IF apiUrl THEN NoError ELSE "API URL not configured"]
  /\ UNCHANGED <<apiUrl, store, jobs, p, pollingRef, timeRef, timers,
                 statusReqs, createReqs, loadReqs, submits, createSent, stopped,
                 clearCalls, tornActive, failedPolls, now, reloads, snapshot,
                 view, parseReqs, tieredGroups, tierLayout, lastMove>>

EUnmount ==
  /\ page = "E"
  /\ page' = "none"
  /\ timers' = ClearPollTimer("E", cur)
  /\ tornActive' = IF HasTimer(cur) THEN tornActive \cup {cur} ELSE tornActive
  /\ e' = EInit
  /\ UNCHANGED <<apiUrl, store, jobs, cur, p, pollingRef, timeRef, statusReqs,
                 createReqs, loadReqs, submits, createSent, stopped, clearCalls,
                 failedPolls, now, reloads, snapshot, view, parseReqs,
                 tieredGroups, tierLayout, lastMove>>

LoadPendingDomains ==
  /\ page = "E"
  /\ e.sourceType = "pending"
  /\ ~e.isLoading
  /\ e' = [e EXCEPT !.isLoading = TRUE, !.error = NoError]
  /\ loadReqs' = loadReqs \cup {cur}
  /\ UNCHANGED <<apiUrl, store, jobs, page, cur, p, pollingRef, timeRef, timers,
                 statusReqs, createReqs, submits, createSent, stopped,
                 clearCalls, tornActive, failedPolls, now, reloads, snapshot,
                 view, parseReqs, tieredGroups, tierLayout, lastMove>>

\* Mutant of LoadPendingDomainsDone: the response replaces the list and leaves
\* the selection as it is (no setSelectedDomains).
LoadPendingDomainsDone_KeepsSelection(i, ok, loaded) ==
  /\ i \in loadReqs
  /\ loadReqs' = loadReqs \ {i}
  /\ e' = IF ~Live("E", i) THEN e
          ELSE IF ok THEN [e EXCEPT !.domains = loaded, !.isLoading = FALSE]
          ELSE [e EXCEPT !.error = "Failed to load pending domains",
                         !.isLoading = FALSE]
  /\ UNCHANGED <<apiUrl, store, jobs, page, cur, p, pollingRef, timeRef, timers,
                 statusReqs, createReqs, submits, createSent, stopped,
                 clearCalls, tornActive, failedPolls, now, reloads, snapshot,
                 view, parseReqs, tieredGroups, tierLayout, lastMove>>

\* The response of the pending-domains request: loaded is the pending_domains
\* list of a 200 response, ok = FALSE a network error or an HTTP error status.
LoadPendingDomainsDone(i, ok, loaded) ==
  /\ i \in loadReqs
  /\ loadReqs' = loadReqs \ {i}
  /\ e' = IF ~Live("E", i) THEN e
          ELSE IF ok THEN [e EXCEPT !.domains = loaded, !.selectedDomains = loaded,
                                    !.isLoading = FALSE]
          ELSE [e EXCEPT !.error = "Failed to load pending domains",
                         !.isLoading = FALSE]
  /\ UNCHANGED <<apiUrl, store, jobs, page, cur, p, pollingRef, timeRef, timers,
                 statusReqs, createReqs, submits, createSent, stopped,
                 clearCalls, tornActive, failedPolls, now, reloads, snapshot,
                 view, parseReqs, tieredGroups, tierLayout, lastMove>>

toggleDomain(domain) ==
  /\ page = "E"
  /\ domain \in e.domains
  /\ e' = [e EXCEPT !.selectedDomains =
             IF domain \in @ THEN @ \ {domain} ELSE @ \cup {domain}]
  /\ UNCHANGED <<apiUrl, store, jobs, page, cur, p, pollingRef, timeRef, timers,
                 statusReqs, createReqs, loadReqs, submits, createSent, stopped,
                 clearCalls, tornActive, failedPolls, now, reloads, snapshot,
                 view, parseReqs, tieredGroups, tierLayout, lastMove>>

selectAll ==
  /\ page = "E"
  /\ e.domains # {}
  /\ e' = [e EXCEPT !.selectedDomains = e.domains]
  /\ UNCHANGED <<apiUrl, store, jobs, page, cur, p, pollingRef, timeRef, timers,
                 statusReqs, createReqs, loadReqs, submits, createSent, stopped,
                 clearCalls, tornActive, failedPolls, now, reloads, snapshot,
                 view, parseReqs, tieredGroups, tierLayout, lastMove>>

clearAll ==
  /\ page = "E"
  /\ e.domains # {}
  /\ e' = [e EXCEPT !.selectedDomains = {}]
  /\ UNCHANGED <<apiUrl, store, jobs, page, cur, p, pollingRef, timeRef, timers,
                 statusReqs, createReqs, loadReqs, submits, createSent, stopped,
                 clearCalls, tornActive, failedPolls, now, reloads, snapshot,
                 view, parseReqs, tieredGroups, tierLayout, lastMove>>

\* The source radio buttons.
setSourceType(t) ==
  /\ page = "E"
  /\ e' = [e EXCEPT !.sourceType = t]
  /\ UNCHANGED <<apiUrl, store, jobs, page, cur, p, pollingRef, timeRef, timers,
                 statusReqs, createReqs, loadReqs, submits, createSent, stopped,
                 clearCalls, tornActive, failedPolls, now, reloads, snapshot,
                 view, parseReqs, tieredGroups, tierLayout, lastMove>>

\* A file is chosen in the CSV input (enabled for sourceType csv):
\* handleFileUpload up to the start of Papa.parse.
handleFileUpload ==
  /\ page = "E"
  /\ e.sourceType = "csv"
  /\ e' = [e EXCEPT !.error = NoError]
  /\ parseReqs' = parseReqs \cup {cur}
  /\ UNCHANGED <<apiUrl, store, jobs, page, cur, p, pollingRef, timeRef, timers,
                 statusReqs, createReqs, loadReqs, submits, createSent, stopped,
                 clearCalls, tornActive, failedPolls, now, reloads, snapshot,
                 view, tieredGroups, tierLayout, lastMove>>

\* Papa.parse calls complete: parsed is the set of the trimmed, lower-cased
\* values of the domain column, duplicates removed.
ParseComplete(i, parsed) ==
  /\ i \in parseReqs
  /\ parseReqs' = parseReqs \ {i}
  /\ e' = IF Live("E", i)
          THEN [e EXCEPT !.domains = parsed, !.selectedDomains = parsed]
          ELSE e
  /\ UNCHANGED <<apiUrl, store, jobs, page, cur, p, pollingRef, timeRef, timers,
                 statusReqs, createReqs, loadReqs, submits, createSent, stopped,
                 clearCalls, tornActive, failedPolls, now, reloads, snapshot,
                 view, tieredGroups, tierLayout, lastMove>>

\* Papa.parse calls error.
ParseError(i) ==
  /\ i \in parseReqs
  /\ parseReqs' = parseReqs \ {i}
  /\ e' = IF Live("E", i) THEN [e EXCEPT !.error = "Failed to parse CSV"] ELSE e
  /\ UNCHANGED <<apiUrl, store, jobs, page, cur, p, pollingRef, timeRef, timers,
                 statusReqs, createReqs, loadReqs, submits, createSent, stopped,
                 clearCalls, tornActive, failedPolls, now, reloads, snapshot,
                 view, tieredGroups, tierLayout, lastMove>>

\* Mutant of SubmitDisabled: the button is not disabled while polling.
SubmitDisabled_WhilePolling == e.selectedDomains = {} \/ e.isLoading

\* The Submit button is rendered with the domain list and carries this
\* disabled attribute.
SubmitDisabled == e.selectedDomains = {} \/ e.isLoading \/ e.isPolling

\* submitBatch up to its await: the early return, the three resets and the
\* POST.  batchSize is the value of the batch-size select, the default or the
\* option chosen last.  pre is the tracking state the handler found, kept with
\* the request.
submitBatch(batchSize) ==
  /\ page = "E"
  /\ e.domains # {}
  /\ ~SubmitDisabled
  /\ e.selectedDomains # {}
  /\ submits < MaxSubmits
  /\ submits' = submits + 1
  /\ createSent' = createSent + 1
  /\ e' = [e EXCEPT !.isLoading = TRUE, !.error = NoError, !.batchStatus = NoStatus]
  /\ createReqs' = createReqs \cup
        {[inst |-> cur, k |-> submits + 1, domains |-> e.selectedDomains,
          batch_size |-> batchSize, reply |-> "sent",
          pre |-> <<e.batchId, e.batchStatus, e.isPolling, pollingRef[cur], store>>]}
  /\ UNCHANGED <<apiUrl, store, jobs, page, cur, p, pollingRef, timeRef, timers,
                 statusReqs, loadReqs, stopped, clearCalls, tornActive,
                 failedPolls, now, reloads, snapshot, view, parseReqs,
                 tieredGroups, tierLayout, lastMove>>

\* data.batch_id is read from the parsed body; res.ok is not looked at.
HasBatchId(reply) == reply \in {"ok_batch_id", "http_error_batch_id"}

\* fetch rejects, or res.json() throws on a body that is no JSON.
CreateThrows(reply) == reply \in {"ok_not_json", "http_error_not_json", "network_error"}

\* submitBatch after its await, the response carrying a batch_id:
\* setBatchId, startPolling (setIsPolling, the initial poll, setInterval) and
\* the finally block.  The backend has created the batch iff it answered 200.
submitBatchStarted(r) ==
  /\ r \in createReqs
  /\ HasBatchId(r.reply)
  /\ InFlight < MaxInflight
  /\ createReqs' = createReqs \ {r}
  /\ e' = IF Live("E", r.inst)
          THEN [e EXCEPT !.batchId = BatchOf(r.k), !.isPolling = TRUE,
                         !.isLoading = FALSE]
          ELSE e
  /\ statusReqs' = statusReqs (+) SetToBag({StatusReq("E", r.inst, BatchOf(r.k), "sent")})
  /\ pollingRef' = [pollingRef EXCEPT ![r.inst] = BatchOf(r.k)]
  /\ timers' = timers \cup {Session("E", r.inst, BatchOf(r.k))}
  /\ UNCHANGED <<apiUrl, store, jobs, page, cur, p, timeRef, loadReqs, submits,
                 createSent, stopped, clearCalls, tornActive, failedPolls, now,
                 reloads, snapshot, view, parseReqs, tieredGroups, tierLayout,
                 lastMove>>

\* Mutants of submitBatchFailed: the else branch without its setError; a
\* failure that also forgets the tracked batch; a failure that sends the
\* create-request again.
submitBatchFailed_SilentElse(r) ==
  /\ r \in createReqs
  /\ r.reply # "sent"
  /\ ~HasBatchId(r.reply)
  /\ createReqs' = createReqs \ {r}
  /\ e' = IF Live("E", r.inst)
          THEN [e EXCEPT !.error = IF CreateThrows(r.reply) THEN "Failed to submit batch"
                                   ELSE @,
                         !.isLoading = FALSE]
          ELSE e
  /\ UNCHANGED <<apiUrl, store, jobs, page, cur, p, pollingRef, timeRef, timers,
                 statusReqs, loadReqs, submits, createSent, stopped, clearCalls,
                 tornActive, failedPolls, now, reloads, snapshot, view,
                 parseReqs, tieredGroups, tierLayout, lastMove>>

submitBatchFailed_ResetsBatch(r) ==
  /\ r \in createReqs
  /\ r.reply # "sent"
  /\ ~HasBatchId(r.reply)
  /\ createReqs' = createReqs \ {r}
  /\ e' = IF Live("E", r.inst)
          THEN [e EXCEPT !.error = IF CreateThrows(r.reply) THEN "Failed to submit batch"
                                   ELSE "Failed to start batch",
                         !.batchId = Null,
                         !.isLoading = FALSE]
          ELSE e
  /\ UNCHANGED <<apiUrl, store, jobs, page, cur, p, pollingRef, timeRef, timers,
                 statusReqs, loadReqs, submits, createSent, stopped, clearCalls,
                 tornActive, failedPolls, now, reloads, snapshot, view,
                 parseReqs, tieredGroups, tierLayout, lastMove>>

submitBatchFailed_Retries(r) ==
  /\ r \in createReqs
  /\ r.reply # "sent"
  /\ ~HasBatchId(r.reply)
  /\ createReqs' = (createReqs \ {r}) \cup {[r EXCEPT !.reply = "sent"]}
  /\ createSent' = createSent + 1
  /\ e' = IF Live("E", r.inst)
          THEN [e EXCEPT !.error = IF CreateThrows(r.reply) THEN "Failed to submit batch"
                                   ELSE "Failed to start batch"]
          ELSE e
  /\ UNCHANGED <<apiUrl, store, jobs, page, cur, p, pollingRef, timeRef, timers,
                 statusReqs, loadReqs, submits, stopped, clearCalls, tornActive,
                 failedPolls, now, reloads, snapshot, view, parseReqs,
                 tieredGroups, tierLayout, lastMove>>

\* submitBatch after its await, every other response: setError in the else
\* branch or in the catch block, then the finally block.
submitBatchFailed(r) ==
  /\ r \in createReqs
  /\ r.reply # "sent"
  /\ ~HasBatchId(r.reply)
  /\ createReqs' = createReqs \ {r}
  /\ e' = IF Live("E", r.inst)
          THEN [e EXCEPT !.error = IF CreateThrows(r.reply) THEN "Failed to submit batch"
                                   ELSE "Failed to start batch",
                         !.isLoading = FALSE]
          ELSE e
  /\ UNCHANGED <<apiUrl, store, jobs, page, cur, p, pollingRef, timeRef, timers,
                 statusReqs, loadReqs, submits, createSent, stopped, clearCalls,
                 tornActive, failedPolls, now, reloads, snapshot, view,
                 parseReqs, tieredGroups, tierLayout, lastMove>>

\* The interval callback of a session of the enrichment page: poll() up to its
\* await.
EPollTick(t) ==
  /\ t \in timers
  /\ t.page = "E"
  /\ InFlight < MaxInflight
  /\ statusReqs' = statusReqs (+) SetToBag({StatusReq("E", t.inst, t.batch, "sent")})
  /\ UNCHANGED <<apiUrl, store, jobs, page, cur, e, p, pollingRef, timeRef,
                 timers, createReqs, loadReqs, submits, createSent, stopped,
                 clearCalls, tornActive, failedPolls, now, reloads, snapshot,
                 view, parseReqs, tieredGroups, tierLayout, lastMove>>

\* What the enrichment page's poll() makes of a response: res.json() without a
\* look at res.ok, so a JSON error body becomes the snapshot.
EPollData(reply) ==
  IF reply \in Statuses THEN reply
  ELSE IF reply = "http_error_json" THEN NoStatusField
  ELSE "throws"

\* poll() of the enrichment page after its await.
EPollDone(r, reply) ==
  /\ BagIn(r, statusReqs)
  /\ r.page = "E"
  /\ Arrives(r, reply)
  /\ statusReqs' = statusReqs (-) SetToBag({r})
  /\ LET data == EPollData(reply)
         term == IsTerminal(data)
     IN  /\ e' = IF ~Live("E", r.inst) \/ data = "throws" THEN e
                 ELSE [e EXCEPT !.batchStatus = data,
                                !.isPolling = IF term THEN FALSE ELSE @]
         /\ timers' = IF term THEN ClearPollTimer("E", r.inst) ELSE timers
         /\ pollingRef' = IF term THEN [pollingRef EXCEPT ![r.inst] = Null]
                          ELSE pollingRef
         /\ stopped' = IF term THEN stopped \cup {SessionOf(r)} ELSE stopped
  /\ UNCHANGED <<apiUrl, store, jobs, page, cur, p, timeRef, createReqs,
                 loadReqs, submits, createSent, clearCalls, tornActive,
                 failedPolls, now, reloads, snapshot, view, parseReqs,
                 tieredGroups, tierLayout, lastMove>>

\* ------------------------------------------------------- BatchProgressPage
\* Mutants of PPollSend: a poll that asks for another batch than the one it
\* was started for; a poll that sends nothing.
PPollSend_WrongHandle(i, id) ==
  IF apiUrl THEN statusReqs (+) SetToBag({StatusReq("P", i, BatchOf(1), "sent")})
  ELSE statusReqs

PPollSend_Never(i, id) == statusReqs

\* Mutant of PPollSend: the request is sent without the test of apiUrl.
PPollSend_Unchecked(i, id) ==
  statusReqs (+) SetToBag({StatusReq("P", i, id, "sent")})

\* poll() of the batch-progress page up to its await: without an API URL it
\* sets the error and returns, otherwise it sends the status request.
PPollSend(i, id) ==
  IF apiUrl THEN statusReqs (+) SetToBag({StatusReq("P", i, id, "sent")})
  ELSE statusReqs

\* updateElapsed: the text of the "Started:" line, from the clock and the
\* startTime of the instance; n to put before the unit.
updateElapsed(clock, startTime) ==
  LET diff == clock - startTime
      minutes == diff \div 60
  IN  IF diff < 60 THEN [n |-> diff, unit |-> "seconds ago"]
      ELSE [n |-> minutes,
            unit |-> IF minutes > 1 THEN "minutes ago" ELSE "minute ago"]

\* The "Started:" line sits inside the progress card, which is rendered for a
\* tracked batch once a snapshot is there ("Loading batch status..." before).
ElapsedLineRendered ==
  page = "P" /\ p.batchId # Null /\ p.batchStatus # NoStatus

\* Mount: the load effect (getItem, setBatchId, startPolling) and the
\* elapsed-time effect (updateElapsed, setInterval).
PMount ==
  /\ page = "none"
  /\ cur < MaxNavs
  /\ store # Null /\ apiUrl => InFlight < MaxInflight
  /\ page' = "P"
  /\ cur' = cur + 1
  /\ timeRef' = timeRef \cup {cur'}
  /\ IF store # Null
     THEN /\ p' = [PInit EXCEPT !.batchId = store,
                                !.error = IF apiUrl THEN NoError
                                          ELSE "API URL not configured",
                                !.startTime = now,
                                !.elapsedTime = updateElapsed(now, now)]
          /\ statusReqs' = PPollSend(cur', store)
          /\ pollingRef' = [pollingRef EXCEPT ![cur'] = store]
          /\ timers' = timers \cup {Session("P", cur', store)}
     ELSE /\ p' = [PInit EXCEPT !.startTime = now,
                                !.elapsedTime = updateElapsed(now, now)]
          /\ UNCHANGED <<statusReqs, pollingRef, timers>>
  /\ failedPolls' = 0
  /\ UNCHANGED <<apiUrl, store, jobs, e, createReqs, loadReqs, submits,
                 createSent, stopped, clearCalls, tornActive, now, reloads,
                 snapshot, view, parseReqs, tieredGroups, tierLayout, lastMove>>

\* Unmount: the cleanup of the first effect and of the elapsed-time effect.
PUnmount ==
  /\ page = "P"
  /\ page' = "none"
  /\ timers' = ClearPollTimer("P", cur)
  /\ timeRef' = timeRef \ {cur}
  /\ tornActive' = IF HasTimer(cur) THEN tornActive \cup {cur} ELSE tornActive
  /\ p' = PInit
  /\ failedPolls' = 0
  /\ UNCHANGED <<apiUrl, store, jobs, cur, e, pollingRef, statusReqs,
                 createReqs, loadReqs, submits, createSent, stopped, clearCalls,
                 now, reloads, snapshot, view, parseReqs, tieredGroups,
                 tierLayout, lastMove>>

\* The interval callback of a session of the batch-progress page.
PPollTick(t) ==
  /\ t \in timers
  /\ t.page = "P"
  /\ apiUrl => InFlight < MaxInflight
  /\ statusReqs' = PPollSend(t.inst, t.batch)
  /\ p' = IF ~apiUrl /\ Live("P", t.inst)
          THEN [p EXCEPT !.error = "API URL not configured"] ELSE p
  /\ UNCHANGED <<apiUrl, store, jobs, page, cur, e, pollingRef, timeRef, timers,
                 createReqs, loadReqs, submits, createSent, stopped, clearCalls,
                 tornActive, failedPolls, now, reloads, snapshot, view,
                 parseReqs, tieredGroups, tierLayout, lastMove>>

\* Mutant of PPollData: a terminal response handled when the store is already
\* empty throws (removeItem of a key that is not there taken for an error).
PPollData_ThrowsOnceCleared(reply) ==
  IF reply \in Statuses /\ ~(reply \in Terminal /\ store = Null)
  THEN reply ELSE "throws"

\* What the batch-progress page's poll() makes of a response: it throws on a
\* rejected fetch and on every response that is not res.ok.
PPollData(reply) == IF reply \in Statuses THEN reply ELSE "throws"

\* Mutant of PPollDone: the terminal branch without localStorage.removeItem.
PPollDone_KeepsStore(r, reply) ==
  /\ BagIn(r, statusReqs)
  /\ r.page = "P"
  /\ Arrives(r, reply)
  /\ statusReqs' = statusReqs (-) SetToBag({r})
  /\ LET data == PPollData(reply)
         term == IsTerminal(data)
     IN  /\ p' = IF ~Live("P", r.inst) THEN p
                 ELSE IF data = "throws"
                 THEN [p EXCEPT !.error = "Failed to fetch batch status"]
                 ELSE [p EXCEPT !.batchStatus = data]
         /\ timers' = IF term THEN ClearPollTimer("P", r.inst) ELSE timers
         /\ pollingRef' = IF term THEN [pollingRef EXCEPT ![r.inst] = Null]
                          ELSE pollingRef
         /\ store' = store
         /\ stopped' = IF term THEN stopped \cup {SessionOf(r)} ELSE stopped
         /\ clearCalls' = IF term THEN clearCalls (+) SetToBag({SessionOf(r)})
                          ELSE clearCalls
         /\ failedPolls' = IF Live("P", r.inst) /\ data = "throws"
                           THEN (IF failedPolls = 0 THEN 1 ELSE 2)
                           ELSE failedPolls
  /\ UNCHANGED <<apiUrl, jobs, page, cur, e, timeRef, createReqs, loadReqs,
                 submits, createSent, tornActive, now, reloads, snapshot, view,
                 parseReqs, tieredGroups, tierLayout, lastMove>>

\* poll() of the batch-progress page after its await.
PPollDone(r, reply) ==
  /\ BagIn(r, statusReqs)
  /\ r.page = "P"
  /\ Arrives(r, reply)
  /\ statusReqs' = statusReqs (-) SetToBag({r})
  /\ LET data == PPollData(reply)
         term == IsTerminal(data)
     IN  /\ p' = IF ~Live("P", r.inst) THEN p
                 ELSE IF data = "throws"
                 THEN [p EXCEPT !.error = "Failed to fetch batch status"]
                 ELSE [p EXCEPT !.batchStatus = data]
         /\ timers' = IF term THEN ClearPollTimer("P", r.inst) ELSE timers
         /\ pollingRef' = IF term THEN [pollingRef EXCEPT ![r.inst] = Null]
                          ELSE pollingRef
         /\ store' = IF term THEN Null ELSE store
         /\ stopped' = IF term THEN stopped \cup {SessionOf(r)} ELSE stopped
         /\ clearCalls' = IF term THEN clearCalls (+) SetToBag({SessionOf(r)})
                          ELSE clearCalls
         /\ failedPolls' = IF Live("P", r.inst) /\ data = "throws"
                           THEN (IF failedPolls = 0 THEN 1 ELSE 2)
                           ELSE failedPolls
  /\ UNCHANGED <<apiUrl, jobs, page, cur, e, timeRef, createReqs, loadReqs,
                 submits, createSent, tornActive, now, reloads, snapshot, view,
                 parseReqs, tieredGroups, tierLayout, lastMove>>

\* The 1-second interval callback: updateElapsed.
ElapsedTick(i) ==
  /\ i \in timeRef
  /\ p' = IF Live("P", i)
          THEN [p EXCEPT !.elapsedTime = updateElapsed(now, p.startTime)]
          ELSE p
  /\ UNCHANGED <<apiUrl, store, jobs, page, cur, e, pollingRef, timeRef, timers,
                 statusReqs, createReqs, loadReqs, submits, createSent, stopped,
                 clearCalls, tornActive, failedPolls, now, reloads, snapshot,
                 view, parseReqs, tieredGroups, tierLayout, lastMove>>

\* A second passes.  Only the batch-progress page reads the clock.
ClockTick ==
  /\ page = "P"
  /\ now < MaxTicks
  /\ now' = now + 1
  /\ UNCHANGED <<apiUrl, store, jobs, page, cur, e, p, pollingRef, timeRef,
                 timers, statusReqs, createReqs, loadReqs, submits, createSent,
                 stopped, clearCalls, tornActive, failedPolls, reloads,
                 snapshot, view, parseReqs, tieredGroups, tierLayout, lastMove>>

\* The tab is reloaded on the batch-progress page.  The old JavaScript context
\* is gone with its timers and with the callbacks of its requests in flight;
\* the page mounts again with fresh state and refs and runs its effects, as in
\* PMount.  Nothing of the old instance is left, its number is used again.
PReload ==
  /\ page = "P"
  /\ reloads < MaxReloads
  /\ reloads' = reloads + 1
  /\ createReqs' = {}
  /\ loadReqs' = {}
  /\ parseReqs' = {}
  /\ timeRef' = {cur}
  /\ failedPolls' = 0
  /\ IF store # Null
     THEN /\ p' = [PInit EXCEPT !.batchId = store,
                                !.error = IF apiUrl THEN NoError
                                          ELSE "API URL not configured",
                                !.startTime = now,
                                !.elapsedTime = updateElapsed(now, now)]
          /\ statusReqs' = IF apiUrl
                           THEN SetToBag({StatusReq("P", cur, store, "sent")})
                           ELSE EmptyBag
          /\ pollingRef' = [i \in Insts |-> IF i = cur THEN store ELSE Null]
          /\ timers' = {Session("P", cur, store)}
     ELSE /\ p' = [PInit EXCEPT !.startTime = now,
                                !.elapsedTime = updateElapsed(now, now)]
          /\ statusReqs' = EmptyBag
          /\ pollingRef' = [i \in Insts |-> Null]
          /\ timers' = {}
  /\ UNCHANGED <<apiUrl, store, jobs, page, cur, e, submits, createSent,
                 stopped, clearCalls, tornActive, now, snapshot, view,
                 tieredGroups, tierLayout, lastMove>>

\* ---------------------------------------------------------------- presenter
\* What the two pages render for a BatchStatus (the JSX below the hooks).
isCompleted(bs) == bs.status \in {"completed", "completed_with_errors"}
isError(bs) == bs.status = "error"

\* similar_companies_found as rendered: the count when the line is rendered.
FoundLine(bs) ==
  IF isCompleted(bs) /\ bs.similar_companies_found # Undefined
  THEN bs.similar_companies_found ELSE Undefined

\* Batch-progress page, the progress card for a snapshot: the status line
\* (green "Completed", red "Error" or the status in yellow), the percentage
\* text and the width of the bar.
RenderProgress(bs) ==
  [page |-> "P",
   banner |-> IF isCompleted(bs) THEN "success"
              ELSE IF isError(bs) THEN "error" ELSE "in_progress",
   label |-> IF isCompleted(bs) THEN "Completed"
             ELSE IF isError(bs) THEN "Error" ELSE bs.status,
   percentText |-> bs.progress_percent,
   barWidth |-> bs.progress_percent,
   found |-> FoundLine(bs)]

\* Enrichment page, for a snapshot of the tracked batch: the Results section
\* when isCompleted, the Active Batch section (status in yellow, the bar)
\* otherwise.  The page has no isError and no percentage text.
RenderEnrichment(bs) ==
  [page |-> "E",
   banner |-> IF isCompleted(bs) THEN "success" ELSE "in_progress",
   label |-> IF isCompleted(bs) THEN "Completed" ELSE bs.status,
   percentText |-> Undefined,
   barWidth |-> IF isCompleted(bs) THEN Undefined ELSE bs.progress_percent,
   found |-> FoundLine(bs)]

\* The presenter alone: a snapshot drawn from Snapshots, rendered by either
\* page.
PresenterInit ==
  /\ TrackingInit
  /\ snapshot \in Snapshots
  /\ view = NoView
  /\ tieredGroups = <<>>
  /\ tierLayout = NoLayout
  /\ lastMove = NoMove

RenderProgressPage ==
  /\ view' = RenderProgress(snapshot)
  /\ UNCHANGED <<tracking, snapshot, tieredGroups, tierLayout, lastMove>>

RenderEnrichmentPage ==
  /\ view' = RenderEnrichment(snapshot)
  /\ UNCHANGED <<tracking, snapshot, tieredGroups, tierLayout, lastMove>>

PresenterNext == RenderProgressPage \/ RenderEnrichmentPage

\* ------------------------------------------------------------ the system
Next ==
  \/ \E r \in BagToSet(statusReqs) : StatusOutcome(r)
  \/ EMount
  \/ EUnmount
  \/ LoadPendingDomains
  \/ \E i \in loadReqs, ok \in BOOLEAN, loaded \in SUBSET Domains :
        LoadPendingDomainsDone(i, ok, IF ok THEN loaded ELSE {})
  \/ \E d \in Domains : toggleDomain(d)
  \/ selectAll
  \/ clearAll
  \/ \E batchSize \in BatchSizeOptions : submitBatch(batchSize)
  \/ \E r \in createReqs, reply \in CreateReplies : CreateOutcome(r, reply)
  \/ \E r \in createReqs : submitBatchStarted(r)
  \/ \E r \in createReqs : submitBatchFailed(r)
  \/ \E t \in timers : EPollTick(t)
  \/ \E r \in BagToSet(statusReqs), reply \in PollReplies : EPollDone(r, reply)
  \/ PMount
  \/ PUnmount
  \/ \E t \in timers : PPollTick(t)
  \/ \E r \in BagToSet(statusReqs), reply \in PollReplies : PPollDone(r, reply)
  \/ \E i \in timeRef : ElapsedTick(i)
  \/ ClockTick
  \/ PReload

Spec == Init /\ [][Next]_vars

PresenterSpec == PresenterInit /\ [][PresenterNext]_vars

\* The enrichment page with both domain sources: what Spec does, the source
\* radio and the CSV upload.
SelectionNext ==
  \/ Next
  \/ \E t \in {"pending", "csv"} : setSourceType(t)
  \/ handleFileUpload
  \/ \E i \in parseReqs, parsed \in SUBSET Domains : ParseComplete(i, parsed)
  \/ \E i \in parseReqs : ParseError(i)

SelectionSpec == Init /\ [][SelectionNext]_vars

\* ------------------------------------------------- test-companies page: tiers
\* src/src/app/admin/test-companies-data-gaps/page.tsx.  A tier group is a
\* label and its columns in order; the labels are the numbers of the tiers.
Columns == 1..MaxColumns

Range(f) == {f[i] : i \in DOMAIN f}

\* The sequences over S in which no element is repeated.
NoDupSeqs(S) ==
  UNION {{f \in [1..n -> S] : \A i, j \in 1..n : f[i] = f[j] => i = j} :
           n \in 0..Cardinality(S)}

\* The layouts the page builds when the data has loaded: up to MaxGroups
\* groups, every column in at most one of them (none before the data is there).
Layouts ==
  UNION {{[i \in 1..n |-> [label |-> i, columns |-> g[i]]] :
            g \in {h \in [1..n -> NoDupSeqs(Columns)] :
                     \A i, j \in 1..n :
                       i # j => Range(h[i]) \cap Range(h[j]) = {}}} :
           n \in 0..MaxGroups}

\* JSON.stringify(groups): per group the label and the array of its columns.
Stringify(groups) ==
  [saved |-> TRUE,
   text |-> [i \in DOMAIN groups |-> <<groups[i].label, groups[i].columns>>]]

\* JSON.parse of a saved layout.
Parse(layout) ==
  [i \in DOMAIN layout.text |->
     [label |-> layout.text[i][1], columns |-> layout.text[i][2]]]

\* columns.indexOf(col), counted from 1; 0 for -1.
IndexOf(columns, col) ==
  IF col \in Range(columns)
  THEN CHOOSE i \in DOMAIN columns :
         columns[i] = col /\ \A j \in 1..(i - 1) : columns[j] # col
  ELSE 0

\* The first tier that holds col, 0 if none does (the for loop).
TierOf(prev, col) ==
  IF \E t \in DOMAIN prev : col \in Range(prev[t].columns)
  THEN CHOOSE t \in DOMAIN prev :
         /\ col \in Range(prev[t].columns)
         /\ \A u \in 1..(t - 1) : col \notin Range(prev[u].columns)
  ELSE 0

Swap(columns, a, b) ==
  [columns EXCEPT ![a] = columns[b], ![b] = columns[a]]

\* columns.splice(i, 1)
Splice(columns, i) ==
  [k \in 1..(Len(columns) - 1) |-> IF k < i THEN columns[k] ELSE columns[k + 1]]

\* Mutant of MovedGroups: a move to the neighbouring tier that leaves the
\* column in its old tier as well (no splice).
MovedGroups_NoSplice(prev, col, direction) ==
  LET t == TierOf(prev, col)
      c == IndexOf(prev[t].columns, col)
  IN  IF direction = "up"
      THEN IF c > 1
           THEN [prev EXCEPT ![t].columns = Swap(@, c - 1, c)]
           ELSE IF t > 1
           THEN [prev EXCEPT ![t - 1].columns = Append(@, col)]
           ELSE prev
      ELSE IF c < Len(prev[t].columns)
           THEN [prev EXCEPT ![t].columns = Swap(@, c, c + 1)]
           ELSE IF t < Len(prev)
           THEN [prev EXCEPT ![t + 1].columns = <<col>> \o @]
           ELSE prev

\* The groups moveColumn builds for a column that is in tier TierOf(prev, col).
MovedGroups(prev, col, direction) ==
  LET t == TierOf(prev, col)
      c == IndexOf(prev[t].columns, col)
  IN  IF direction = "up"
      THEN IF c > 1
           THEN [prev EXCEPT ![t].columns = Swap(@, c - 1, c)]
           ELSE IF t > 1
           THEN [prev EXCEPT ![t].columns = Splice(@, c),
                             ![t - 1].columns = Append(@, col)]
           ELSE prev
      ELSE IF c < Len(prev[t].columns)
           THEN [prev EXCEPT ![t].columns = Swap(@, c, c + 1)]
           ELSE IF t < Len(prev)
           THEN [prev EXCEPT ![t].columns = Splice(@, c),
                             ![t + 1].columns = <<col>> \o @]
           ELSE prev

\* moveColumn(col, direction): the updater of setTieredGroups.  It returns
\* prev, and saves nothing, for a column that is in no tier; otherwise it
\* saves the groups it returns.
moveColumn(col, direction) ==
  /\ lastMove' = [col |-> col, direction |-> direction,
                  groups |-> tieredGroups, layout |-> tierLayout]
  /\ IF TierOf(tieredGroups, col) = 0
     THEN UNCHANGED <<tieredGroups, tierLayout>>
     ELSE /\ tieredGroups' = MovedGroups(tieredGroups, col, direction)
          /\ tierLayout' = Stringify(tieredGroups')
  /\ UNCHANGED <<tracking, snapshot, view>>

\* The page with its data loaded: some layout, saved before or not.
TierInit ==
  /\ TrackingInit
  /\ snapshot = NoStatus
  /\ view = NoView
  /\ tieredGroups \in Layouts
  /\ tierLayout \in {NoLayout, Stringify(tieredGroups)}
  /\ lastMove = NoMove

TierNext == \E col \in Columns, direction \in {"up", "down"} : moveColumn(col, direction)

TierSpec == TierInit /\ [][TierNext]_vars

\* ------------------------------------------------ scheduling of the poller
\* The job API answers a status request of the batch-progress page with a
\* terminal status.
AnswersTerminal ==
  \E r \in BagToSet(statusReqs) :
     r.page = "P" /\ StatusOutcome(r) /\ jobs'[r.batch] \in Terminal

\* The page handles a terminal response, or any outcome of a request.
HandlesTerminal ==
  \E r \in BagToSet(statusReqs), reply \in Terminal : PPollDone(r, reply)

HandlesAny ==
  \E r \in BagToSet(statusReqs), reply \in PollReplies : PPollDone(r, reply)

\* The page on the enrichment side handles an outcome of a request.
EHandlesAny ==
  \E r \in BagToSet(statusReqs), reply \in PollReplies : EPollDone(r, reply)

\* setInterval keeps calling poll: the tick is strongly fair, since only the
\* bound on the requests in flight ever disables it, and the requests of a
\* timer that outlived the enrichment page may fill that bound again and
\* again.  Every request in flight is answered and its outcome handled, on
\* either page; the job finishes, and a request of the batch-progress page
\* sent often enough is in the end answered with the terminal status, which
\* the page then handles.
Fairness ==
  /\ SF_vars(\E t \in timers : PPollTick(t))
  /\ WF_vars(\E r \in BagToSet(statusReqs) : StatusOutcome(r))
  /\ WF_vars(HandlesAny)
  /\ WF_vars(EHandlesAny)
  /\ WF_vars(HandlesTerminal)
  /\ SF_vars(AnswersTerminal)

LiveSpec == Init /\ [][Next]_vars /\ Fairness

\* ------------------------------------------------ the documented submitter
\* docs/updates/update.md: on a successful submission the enrichment page
\* stores the batch_id under activeBatchId.  The enrichment page of the
\* sources has no such write; the step below is the one the update note
\* describes, made in another tab of the console (localStorage is shared by
\* the tabs of an origin): batch b is created and its id saved while this tab
\* is on batch-progress.
SaveHandle(b) ==
  /\ jobs[b] = "none"
  /\ jobs' = [jobs EXCEPT ![b] = "pending"]
  /\ store' = b
  /\ UNCHANGED <<apiUrl, page, cur, e, p, pollingRef, timeRef, timers,
                 statusReqs, createReqs, loadReqs, submits, createSent, stopped,
                 clearCalls, tornActive, failedPolls, now, reloads, snapshot,
                 view, parseReqs, tieredGroups, tierLayout, lastMove>>

\* The batch-progress page, the job API and the documented submitter.
SavingNext ==
  \/ \E r \in BagToSet(statusReqs) : StatusOutcome(r)
  \/ PMount
  \/ PUnmount
  \/ \E t \in timers : PPollTick(t)
  \/ \E r \in BagToSet(statusReqs), reply \in PollReplies : PPollDone(r, reply)
  \/ \E i \in timeRef : ElapsedTick(i)
  \/ ClockTick
  \/ PReload
  \/ \E b \in BatchIds : SaveHandle(b)

SavingSpec == Init /\ [][SavingNext]_vars

\* ------------------------------------------------------------ properties
\* The messages submitBatch puts in the error banner.
SubmitErrors == {"Failed to start batch", "Failed to submit batch"}

\* The step is submitBatch finishing for the create-request r.
Finishes(r) ==
  /\ r \in createReqs
  /\ createReqs' = createReqs \ {r}
  /\ reloads' = reloads

\* The step is submitBatch being invoked (a create-request is issued).
Invokes == \E r \in createReqs' : r \notin createReqs /\ r.reply = "sent"

\* C1: every submitBatch that passed validation ends in exactly one of two
\* ways: (a) one new polling session for the batch of the response, registered
\* in pollingRef, the batch id tracked and no submission error shown, or
\* (b) a submission error shown, no polling session started, no handle tracked
\* or stored.  What is shown is asserted while the instance is still mounted
\* (React drops the state updates of an instance that was torn down).
C1_SubmitOutcome ==
  [][\A r \in createReqs : Finishes(r) =>
       LET id == BatchOf(r.k)
           live == Live("E", r.inst)
           sessionStarted ==
             /\ timers' \ timers = {Session("E", r.inst, id)}
             /\ timers \subseteq timers'
             /\ pollingRef'[r.inst] = id
             /\ live => e'.batchId = id /\ e'.isPolling
           errorShown == live => e'.error \in SubmitErrors
           noError == live => e'.error = NoError
           nothingStarted ==
             /\ timers' = timers
             /\ pollingRef' = pollingRef
             /\ store' = store
             /\ live => e'.batchId = e.batchId /\ e'.isPolling = e.isPolling
       IN  \/ sessionStarted /\ noError
           \/ nothingStarted /\ errorShown /\ (live => e'.error # NoError)
  ]_vars

C1_Witness ==
  /\ page = "E"
  /\ e.isPolling /\ ~e.isLoading /\ e.error = NoError
  /\ e.batchId # Null
  /\ timers = {Session("E", cur, e.batchId)}
  /\ createReqs = {}

\* C2: when the create-response carries a batch_id, submitBatch writes it to
\* localStorage["activeBatchId"]: right after the successful submission the
\* store holds the submitted batch's id.
C2_StoreHoldsBatchId ==
  [][\A r \in createReqs : Finishes(r) /\ HasBatchId(r.reply) =>
       store' = BatchOf(r.k)]_vars

\* The three failure kinds of a create-request: a body without batch_id, a
\* network error, an HTTP error status (whatever the body).
FailureReplies == CreateReplies \ {"ok_batch_id"}

\* C3: a create-request that failed in one of the three ways makes submitBatch
\* show an error and start no polling session.
C3_FailureShowsError ==
  [][\A r \in createReqs : Finishes(r) /\ r.reply \in FailureReplies =>
       /\ timers' = timers
       /\ Live("E", r.inst) => e'.error \in SubmitErrors]_vars

\* The tracking state of the mounted enrichment page, as submitBatch records it.
Tracking == <<e.batchId, e.batchStatus, e.isPolling, pollingRef[cur], store>>

C5_OneCreatePerSubmit ==
  /\ createSent = submits
  /\ Cardinality(createReqs) <= createSent
  /\ \A r \in createReqs :
       /\ r.batch_size >= 1 /\ r.batch_size <= 500
       /\ r.domains # {}

C5_Witness ==
  /\ page = "E"
  /\ submits = 1 /\ createSent = 1
  /\ createReqs = {}
  /\ e.error \in SubmitErrors

\* The number of status requests of session s in flight in the bag B.
RequestsOf(s, B) ==
  BagCardinality([r \in {x \in BagToSet(B) : SessionOf(x) = s} |-> B[r]])

\* The step is poll() handling the outcome of the status request r.
Handles(r) ==
  /\ BagIn(r, statusReqs)
  /\ statusReqs' = statusReqs (-) SetToBag({r})
  /\ reloads' = reloads

\* C6: a page instance has at most one pending poll timer, and it is the one
\* its pollingRef holds.
C6_OneTimerPerInstance ==
  /\ \A t \in timers : pollingRef[t.inst] = t.batch
  /\ \A i \in Insts : Cardinality({t \in timers : t.inst = i}) <= 1

\* A second polling session runs on an instance whose first session has ended.
C6_Witness ==
  /\ page = "E"
  /\ stopped # {}
  /\ \E t \in timers : t.inst = cur /\ t \notin stopped /\ pollingRef[cur] = t.batch

\* C7: handling a response with status pending or processing leaves the timers,
\* pollingRef and the store as they are; a session whose timer is pending keeps
\* exactly that timer.
C7_NonTerminalKeepsSchedule ==
  [][\A r \in BagToSet(statusReqs) : Handles(r) /\ r.reply \in NonTerminal =>
       UNCHANGED <<timers, pollingRef, store>>]_vars

C7_Witness ==
  /\ page = "P"
  /\ p.batchStatus = "processing"
  /\ timers = {Session("P", cur, p.batchId)}
  /\ store = p.batchId

C9_NoTimerAfterTeardown ==
  \A i \in tornActive : ~HasTimer(i) /\ i \notin timeRef

\* Torn down with a session that had seen no terminal status.
C9_Witness ==
  /\ page = "none"
  /\ cur \in tornActive
  /\ stopped = {}
  /\ InFlight > 0

\* C10: a failed poll for a batch the job API knows (a network error or a
\* response that is not 200: the request has no answer of the job API when its
\* outcome arrives) leaves the timers, pollingRef, the store and the snapshot
\* as they are.
C10_FailedPollChangesNothing ==
  [][\A r \in BagToSet(statusReqs) :
       Handles(r) /\ r.reply = "sent" /\ jobs[r.batch] # "none" =>
       /\ UNCHANGED <<timers, pollingRef, store>>
       /\ e'.batchStatus = e.batchStatus
       /\ p'.batchStatus = p.batchStatus]_vars

\* C11: one failed status request followed by a successful one leaves no
\* error message on the page: when the batch-progress page that has handled
\* exactly one failed poll handles a 200 response, it shows no error.
C11_NoErrorAfterRecovery ==
  [][\A r \in BagToSet(statusReqs) :
       /\ Handles(r) /\ r.page = "P" /\ Live("P", r.inst)
       /\ r.reply \in Statuses
       /\ failedPolls = 1
       => p'.error = NoError]_vars

\* The polling sessions that have a status request in flight.
Polling == {SessionOf(r) : r \in BagToSet(statusReqs)}

\* C12: a polling session has at most one status request in flight.
C12_OneRequestInFlight ==
  \A s \in Polling : RequestsOf(s, statusReqs) <= 1

\* C13: once the snapshot shown for a batch has a terminal status, the
\* snapshot shown for that batch never has status pending or processing again.
C13_TerminalIsFinal ==
  [][/\ page = "P" /\ page' = "P" /\ reloads' = reloads
        /\ p.batchStatus \in Terminal /\ p'.batchId = p.batchId
        => p'.batchStatus \notin NonTerminal
     /\ page = "E" /\ page' = "E"
        /\ e.batchStatus \in Terminal /\ e'.batchId = e.batchId
        => e'.batchStatus \notin NonTerminal
  ]_vars

\* C14: localStorage["activeBatchId"] changes only in a step in which the
\* poller of the batch-progress page handles a response with a terminal
\* status, and then it is removed; no other step (submission, failed poll,
\* non-terminal response, timer tick, teardown, reload) changes it.
C14_OnlyTerminalPollClears ==
  [][store' # store =>
       /\ store' = Null
       /\ \E r \in BagToSet(statusReqs) :
            Handles(r) /\ r.page = "P" /\ r.reply \in Terminal]_vars

\* The store was cleared after a reload, a failed poll and an elapsed tick
\* that left it alone.
C14_Witness ==
  /\ page = "P"
  /\ reloads = 1
  /\ failedPolls = 1
  /\ p.elapsedTime.n > 0
  /\ store = Null
  /\ clearCalls # EmptyBag

\* The step mounts the batch-progress page (navigation or reload).
Mounts == page' = "P" /\ (page # "P" \/ reloads' # reloads)

\* C15: when the batch-progress page mounts and the store holds a batch id,
\* the instance tracks that id, its one timer and every status request it has
\* in flight are for that id, and no create-request is issued; when the store
\* is absent the instance has no timer and no status request, tracks nothing
\* (the no-active-batch view) and shows no error.
C15_MountResumes ==
  [][Mounts =>
       /\ createSent' = createSent
       /\ createReqs' \subseteq createReqs
       /\ IF store # Null
          THEN /\ p'.batchId = store
               /\ pollingRef'[cur'] = store
               /\ {t \in timers' : t.inst = cur'} = {Session("P", cur', store)}
               /\ \A r \in BagToSet(statusReqs') : r.inst = cur' =>
                    r = StatusReq("P", cur', store, "sent")
          ELSE /\ p'.batchId = Null
               /\ p'.error = NoError
               /\ pollingRef'[cur'] = Null
               /\ \A t \in timers' : t.inst # cur'
               /\ \A r \in BagToSet(statusReqs') : r.inst # cur'
  ]_vars

C15_Witness ==
  /\ page = "P"
  /\ reloads = 0
  /\ p.batchId = 1 /\ p.batchStatus = NoStatus
  /\ timers = {Session("P", cur, 1)}
  /\ statusReqs = SetToBag({StatusReq("P", cur, 1, "sent")})
  /\ createSent = 0

\* The sessions the step starts.
Started ==
  IF reloads' # reloads THEN timers' ELSE timers' \ timers

\* The status requests of session s in flight before the step, none after a
\* reload.
Before(s) == IF reloads' # reloads THEN 0 ELSE RequestsOf(s, statusReqs)

\* C16 as stated: the step that starts a polling session sends the session's
\* first status request and registers the session's timer in pollingRef, so
\* that no response of the session is handled before the timer is registered;
\* handling a terminal response leaves the session without timer.
C16_FirstRequestAtStart ==
  [][/\ \A s \in Started :
          /\ pollingRef'[s.inst] = s.batch
          /\ RequestsOf(s, statusReqs') = Before(s) + 1
     /\ \A r \in BagToSet(statusReqs) :
          Handles(r) /\ r.reply \in Terminal => SessionOf(r) \notin timers'
  ]_vars

\* C16 amended: as stated when NEXT_PUBLIC_API_URL is set.  Without it the
\* batch-progress page registers the timer, sends no status request and shows
\* "API URL not configured".
C16_FirstRequestIfConfigured ==
  [][/\ \A s \in Started :
          /\ pollingRef'[s.inst] = s.batch
          /\ IF s.page = "P" /\ ~apiUrl
             THEN /\ RequestsOf(s, statusReqs') = Before(s)
                  /\ p'.error = "API URL not configured"
             ELSE RequestsOf(s, statusReqs') = Before(s) + 1
     /\ \A r \in BagToSet(statusReqs) :
          Handles(r) /\ r.reply \in Terminal => SessionOf(r) \notin timers'
  ]_vars

\* The first response of a session was terminal and cancelled its timer.
C16_Witness ==
  /\ page = "P"
  /\ reloads = 0
  /\ failedPolls = 0
  /\ stopped = {Session("P", cur, 1)}
  /\ CopiesIn(Session("P", cur, 1), clearCalls) = 1
  /\ timers = {}
  /\ pollingRef[cur] = Null
  /\ statusReqs = EmptyBag

\* C17: the percentage text and the width of the bar that a page renders are
\* within 0..100.
C17_PercentWithinRange ==
  /\ view.percentText # Undefined => view.percentText \in 0..100
  /\ view.barWidth # Undefined => view.barWidth \in 0..100

\* C18: what a page renders for a snapshot is the error banner iff the status
\* is error, the success banner iff it is completed or completed_with_errors
\* (with the similar_companies_found count when the snapshot has one), the
\* in-progress display otherwise.
C18_OneBannerPerStatus ==
  view.page # "none" =>
    /\ view.banner = "error" <=> snapshot.status = "error"
    /\ view.banner = "success" <=>
         snapshot.status \in {"completed", "completed_with_errors"}
    /\ view.banner = "in_progress" <=> snapshot.status \in NonTerminal
    /\ view.banner = "success" => view.found = snapshot.similar_companies_found

\* C19: from mount to teardown a batch-progress page that tracks a batch keeps
\* its one-second timer pending and shows the elapsed time, whatever the polls
\* have brought (failures, nothing yet, a terminal status); stated for a build
\* with NEXT_PUBLIC_API_URL set.
C19_ElapsedAlwaysShown ==
  apiUrl /\ page = "P" /\ p.batchId # Null =>
    cur \in timeRef /\ ElapsedLineRendered

\* The seconds an elapsed-time text stands for, at least.
ShownSeconds(t) == IF t.unit = "seconds ago" THEN t.n ELSE 60 * t.n

\* C20: when the batch-progress page is reloaded while it shows the elapsed
\* time of a batch and goes on tracking that batch, the elapsed time it has
\* for the batch after the reload is not less than the one it showed before.
C20_ElapsedSurvivesReload ==
  [][/\ apiUrl /\ ElapsedLineRendered /\ reloads' # reloads
     /\ p'.batchId = p.batchId
     => ShownSeconds(p'.elapsedTime) >= ShownSeconds(p.elapsedTime)]_vars

\* C21: under LiveSpec, a batch-progress page of a configured build that
\* polls either is torn down or comes to a state in which its poll timer is
\* gone and the store is empty.
C21_PollingEventuallyStops ==
  [](apiUrl /\ page = "P" /\ HasTimer(cur) =>
       <>(page # "P" \/ (~HasTimer(cur) /\ store = Null)))

\* Polling stopped after a failed poll.
C21_Witness ==
  /\ apiUrl /\ page = "P"
  /\ failedPolls = 2
  /\ Session("P", cur, p.batchId) \in stopped
  /\ ~HasTimer(cur)
  /\ store = Null

\* C22: a terminal response handled for a session that has already stopped
\* (on the enrichment page: while no other session has been started) leaves
\* the timers, pollingRef, the store, the error and a terminal snapshot as
\* they are, and so does a teardown after the session has stopped.
C22_StopIsIdempotent ==
  [][/\ \A r \in BagToSet(statusReqs) :
          /\ Handles(r) /\ r.reply \in Terminal /\ SessionOf(r) \in stopped
          /\ r.page = "E" => pollingRef[r.inst] = Null
          => /\ UNCHANGED <<timers, pollingRef, store>>
             /\ p'.error = p.error /\ e'.error = e.error
             /\ Live("P", r.inst) => p'.batchStatus = r.reply
             /\ Live("P", r.inst) /\ p.batchStatus \in Terminal => p' = p
     /\ /\ page # "none" /\ page' = "none"
        /\ pollingRef[cur] = Null
        => UNCHANGED <<timers, pollingRef, store>>
  ]_vars

\* Two terminal responses handled, no error shown.
C22_Witness ==
  /\ page = "P"
  /\ CopiesIn(Session("P", cur, 1), clearCalls) = 2
  /\ p.batchStatus \in Terminal
  /\ p.error = NoError
  /\ timers = {} /\ store = Null

\* C23: every pending poll timer belongs to the page instance that is
\* mounted; none is pending for an instance that was torn down, none is
\* created for it later.
C23_NoTimerOfTornDownPage ==
  \A t \in timers : Live(t.page, t.inst)

\* C24: when the batch-progress page mounts (navigation or reload) after a
\* batch-progress poller has handled a terminal status, the store is absent,
\* the new instance tracks nothing, has no poll timer and sends no status
\* request.
C24_NoResumeAfterTerminal ==
  [][Mounts /\ (\E s \in stopped : s.page = "P") =>
       /\ store = Null
       /\ p'.batchId = Null
       /\ \A t \in timers' : t.inst # cur'
       /\ \A r \in BagToSet(statusReqs') : r.inst # cur'
  ]_vars

C24_Witness ==
  /\ page = "P"
  /\ reloads = 1
  /\ Session("P", cur, 1) \in stopped
  /\ p.batchId = Null
  /\ timers = {} /\ statusReqs = EmptyBag

\* C25: on the mounted enrichment page a status response (200, with a
\* BatchStatus) of a batch other than the tracked one changes neither the
\* snapshot nor the timers nor pollingRef nor isPolling.
C25_EarlierBatchIgnored ==
  [][\A r \in BagToSet(statusReqs) :
       /\ Handles(r) /\ r.page = "E" /\ Live("E", r.inst)
       /\ r.reply \in Statuses
       /\ e.batchId # r.batch
       => /\ e'.batchStatus = e.batchStatus
          /\ e'.isPolling = e.isPolling
          /\ UNCHANGED <<timers, pollingRef>>
  ]_vars

\* C26: handling a terminal response for a batch leaves the store alone when
\* the store holds the id of another batch.
C26_ClearsOnlyOwnHandle ==
  [][\A r \in BagToSet(statusReqs) :
       /\ Handles(r) /\ r.reply \in Terminal
       /\ store # Null /\ store # r.batch
       => store' = store
  ]_vars

\* C27: on the mounted enrichment page isPolling is true exactly when
\* pollingRef holds a timer, which is then pending; the Submit button is
\* disabled as long as it is.
C27_PollingFlagMatchesTimer ==
  page = "E" =>
    /\ e.isPolling <=> pollingRef[cur] # Null
    /\ pollingRef[cur] # Null <=> HasTimer(cur)
    /\ HasTimer(cur) => SubmitDisabled

\* The button is enabled again after a terminal status.
C27_Witness ==
  /\ page = "E"
  /\ Session("E", cur, e.batchId) \in stopped
  /\ e.batchStatus \in Terminal
  /\ ~e.isPolling /\ pollingRef[cur] = Null
  /\ ~SubmitDisabled

\* C28: after every step the selected domains are among the listed domains,
\* and a create-request carries the selection of the moment it is sent, which
\* is among the domains listed then.
C28_SelectionWithinList ==
  [][/\ e'.selectedDomains \subseteq e'.domains
     /\ \A r \in createReqs' \ createReqs :
          r.reply = "sent" =>
            r.domains = e.selectedDomains /\ r.domains \subseteq e.domains
  ]_vars

\* A list that came from a CSV file was submitted, then deselected, while
\* another file is being parsed.
C28_Witness ==
  /\ page = "E"
  /\ e.sourceType = "csv"
  /\ e.domains = Domains
  /\ e.selectedDomains = {}
  /\ parseReqs = {cur}
  /\ \E r \in createReqs : r.domains = Domains

\* How often column c occurs in the groups.
Occurrences(groups, c) ==
  Cardinality({ti \in (DOMAIN groups) \X (1..MaxColumns) :
                 /\ ti[2] \in DOMAIN groups[ti[1]].columns
                 /\ groups[ti[1]].columns[ti[2]] = c})

\* What moveColumn has kept of the groups it found: their number, their
\* labels, and how often each column occurs.
Preserved ==
  /\ Len(tieredGroups) = Len(lastMove.groups)
  /\ \A t \in DOMAIN tieredGroups : tieredGroups[t].label = lastMove.groups[t].label
  /\ \A c \in Columns :
       Occurrences(tieredGroups, c) = Occurrences(lastMove.groups, c)

\* The calls that are to change nothing: a column of no group, the first
\* column of the first group up, the last column of the last group down.
NoOpCall ==
  LET g == lastMove.groups
      t == TierOf(g, lastMove.col)
  IN  \/ t = 0
      \/ /\ lastMove.direction = "up"
         /\ t = 1 /\ IndexOf(g[t].columns, lastMove.col) = 1
      \/ /\ lastMove.direction = "down"
         /\ t = Len(g) /\ IndexOf(g[t].columns, lastMove.col) = Len(g[t].columns)

\* C29 as stated: after a moveColumn the groups are Preserved, they are the
\* groups before for a NoOpCall, and the saved layout is the groups.
C29_MoveKeepsColumnsAndSaves ==
  lastMove.direction # "none" =>
    /\ Preserved
    /\ NoOpCall => tieredGroups = lastMove.groups
    /\ tierLayout.saved /\ Parse(tierLayout) = tieredGroups

\* C29 amended: the saved layout is the groups after a moveColumn of a column
\* that is in a group; for a column of no group the saved layout is what it
\* was before the call (none, if none was saved).
C29_MoveKeepsColumns ==
  lastMove.direction # "none" =>
    /\ Preserved
    /\ NoOpCall => tieredGroups = lastMove.groups
    /\ IF TierOf(lastMove.groups, lastMove.col) = 0
       THEN tierLayout = lastMove.layout
       ELSE tierLayout.saved /\ Parse(tierLayout) = tieredGroups

\* A column went from the second group to the end of the first.
C29_Witness ==
  /\ lastMove.direction = "up"
  /\ Len(tieredGroups) = 2
  /\ Len(tieredGroups[1].columns) = Len(lastMove.groups[1].columns) + 1
  /\ tieredGroups[1].columns[Len(tieredGroups[1].columns)] = lastMove.col
  /\ ~lastMove.layout.saved
  /\ tierLayout = Stringify(tieredGroups)

\* C30: without NEXT_PUBLIC_API_URL a batch-progress page that tracks a batch
\* shows the configuration error, has no snapshot and no status request in
\* flight, its poll timer is pending and the store still holds the batch id.
C30_UnconfiguredPollsNothing ==
  ~apiUrl /\ page = "P" /\ p.batchId # Null =>
    /\ p.error = "API URL not configured"
    /\ p.batchStatus = NoStatus
    /\ \A r \in BagToSet(statusReqs) : r.page # "P"
    /\ Session("P", cur, p.batchId) \in timers
    /\ store = p.batchId

\* Still so a second later and after a reload.
C30_Witness ==
  /\ ~apiUrl /\ page = "P"
  /\ p.batchId = 1
  /\ reloads = 1
  /\ p.elapsedTime.n > 0
  /\ HasTimer(cur)

====
